---- MODULE Spec2Model ----
(***************************************************************************)
(* A model of the StartingAbstract research toolkit:                       *)
(*   - provident/job.py: Params, main (train-and-eval loop),               *)
(*     train_on_corpus;                                                    *)
(*   - analysis/compare_conditional_entropy.py: the strided window matrix  *)
(*     and collect_data.                                                   *)
(* The specifications share the variables: SpecMain (one run of main on a  *)
(* well-typed configuration; SpecMainFair adds that the run keeps going),  *)
(* SpecParams (Params.from_param2val on other mappings) and SpecAnalysis   *)
(* (the entropy analysis script).                                          *)
(***************************************************************************)
EXTENDS Integers, Sequences, FiniteSets, TLC

\* ------------------------------------------------------------------ bounds
MaxTicks == 3          \* configs.Eval.num_total_ticks ranges over 1..MaxTicks
MaxStartTicks == 2     \* configs.Eval.num_start_ticks ranges over 0..MaxStartTicks
MaxTickStep == 2       \* configs.Eval.tick_step ranges over 1..MaxTickStep
MaxMbsPerEval == 2     \* prep.num_mbs_per_eval ranges over 1..MaxMbsPerEval
MaxEdits == 2          \* edits applied to the well-typed mapping (SpecParams)
MaxTokens == 5         \* the token stream holds 1..MaxTokens tokens
MaxWidth == 3          \* prep.num_tokens_in_window ranges over 2..MaxWidth
VocabSize == 2         \* the vocabulary holds the words 1..VocabSize

VARIABLES
    pc,               \* position in main
    err,              \* the exception main raised, "none" if none
    param2val,        \* the incoming mapping: key -> type tag of its value, or "absent"
    edits,            \* number of edits applied to param2val (SpecParams)
    params,           \* the Params object: field -> type tag, or NoParams
    optimizer,        \* the value of param2val['optimizer']
    num_total_ticks,  \* configs.Eval.num_total_ticks
    num_start_ticks,  \* configs.Eval.num_start_ticks
    tick_step,        \* configs.Eval.tick_step
    num_mbs_per_eval, \* train_prep.num_mbs_per_eval
    num_mbs,          \* number of batches train_prep.generate_batches() yields
    enabled,          \* the metrics the update_*_performance functions record
    gen_pos,          \* number of batches pulled from windows_generator so far
    islice_cnt,       \* items the current islice has yielded
    trained,          \* the batches trained on, in order (batch i is the i-th yielded)
    opt_steps,        \* number of optimizer.step() calls
    train_mb,         \* main's train_mb counter
    tick,             \* the loop variable tick
    eval_mb,          \* the loop variable eval_mb
    visited,          \* the ticks the loop body was entered with, in order
    performance_mbs,  \* main's performance_mbs list
    performance,      \* main's performance dict: metric -> list
    res,              \* main's return value, <<>> until it returns
    apc,              \* position in the analysis script
    token_ids,        \* prep.store.token_ids
    num_tokens_in_window, \* prep.num_tokens_in_window
    probes,           \* the probe words
    windows,          \* the module-level matrix of all windows
    num_windows_list, \* the cumulative sizes
    reverse,          \* collect_data's argument reverse
    cwindows,         \* collect_data's local windows (flipped when reverse)
    it,               \* the next position of the loop over num_windows_list
    ws,               \* the slice of the latest iteration
    ce,               \* collect_data's list ce
    y1,               \* the forward curve
    y2                \* the reverse curve

mainVars == <<pc, err, param2val, edits, params, optimizer, num_total_ticks,
              num_start_ticks, tick_step, num_mbs_per_eval, num_mbs, enabled,
              gen_pos, islice_cnt, trained, opt_steps, train_mb, tick, eval_mb,
              visited, performance_mbs, performance, res>>

analysisVars == <<apc, token_ids, num_tokens_in_window, probes, windows,
                  num_windows_list, reverse, cwindows, it, ws, ce, y1, y2>>

vars == <<mainVars, analysisVars>>

\* ------------------------------------------------------------------ Params
\* The declared fields of Params, in declaration order.
Fields == <<"shuffle_sentences", "corpus", "num_types", "num_parts", "context_size",
            "flavor", "hidden_size", "reverse", "sliding", "num_iterations",
            "batch_size", "lr", "optimizer", "exclude_number_words">>

FieldSet == {Fields[i] : i \in 1..Len(Fields)}

\* The type each field's instance_of validator names.
FieldType(f) ==
    CASE f \in {"shuffle_sentences", "reverse", "sliding", "exclude_number_words"} -> "bool"
      [] f \in {"corpus", "flavor", "optimizer"} -> "str"
      [] f \in {"num_types", "num_parts", "context_size", "hidden_size", "batch_size"} -> "int"
      [] f = "num_iterations" -> "tuple"
      [] f = "lr" -> "float"

\* The keys from_param2val filters out of the mapping.
RemovedKeys == {"job_name", "param_name", "save_path", "project_path"}

\* A key the experiment runner may pass that Params does not declare.
OtherKeys == {"extra_key"}

AllKeys == FieldSet \cup RemovedKeys \cup OtherKeys

TypeTags == {"bool", "int", "float", "str", "tuple", "NoneType"}

NoParams == <<>>

\* Python's isinstance(v, t) on the type tags: bool is a subclass of int.
IsInstanceExact(ty, t) == ty = t

IsInstance(ty, t) == ty = t \/ (ty = "bool" /\ t = "int")

\* The keys of the mapping.
Keys(m) == {k \in AllKeys : m[k] # "absent"}

\* kwargs = {k: v for k, v in param2val.items() if k not in [...]}
FilterKwargs(m) == Keys(m) \ RemovedKeys

\* cls(**kwargs): the generated __init__ rejects an unexpected or a missing
\* keyword, then each validator rejects a value that is no instance of its type.
ConstructOk(m) ==
    /\ FilterKwargs(m) = FieldSet
    /\ \A f \in FieldSet : IsInstance(m[f], FieldType(f))

from_param2val(m) ==
    IF ConstructOk(m) THEN [f \in FieldSet |-> m[f]] ELSE NoParams

\* A mapping every field of which holds a value of exactly its type.
WellTyped ==
    [k \in AllKeys |->
        IF k \in FieldSet THEN FieldType(k)
        ELSE IF k \in RemovedKeys THEN "str"
        ELSE "absent"]

\* ------------------------------------------------------------------ the provider
Metrics == <<"train_pp", "test_pp", "cs", "dp", "ba">>

MetricSet == {Metrics[i] : i \in 1..Len(Metrics)}

Optimizers == {"adagrad", "sgd", "adam"}

\* train_prep.eval_mbs: one marker per tick 0..num_evaluations, num_mbs_per_eval apart.
eval_mbs == [i \in 1..(num_total_ticks + 1) |-> (i - 1) * num_mbs_per_eval]

\* ------------------------------------------------------------------ main
\* The analysis script before it runs (the state of its variables in the
\* specifications of main and of Params).
AnalysisIdle ==
    /\ apc = "idle"
    /\ token_ids = <<>>
    /\ num_tokens_in_window = 2
    /\ probes = {}
    /\ windows = <<>>
    /\ num_windows_list = <<>>
    /\ reverse = FALSE
    /\ cwindows = <<>>
    /\ it = 1
    /\ ws = <<>>
    /\ ce = <<>>
    /\ y1 = <<>>
    /\ y2 = <<>>

MainInit ==
    /\ AnalysisIdle
    /\ pc = "params"
    /\ err = "none"
    /\ param2val = WellTyped
    /\ edits = 0
    /\ params = NoParams
    /\ optimizer \in Optimizers
    /\ num_total_ticks \in 1..MaxTicks
    /\ num_start_ticks \in 0..MaxStartTicks
    /\ tick_step \in 1..MaxTickStep
    /\ num_mbs_per_eval \in 1..MaxMbsPerEval
    /\ \E leftover \in {0, 1} :
          num_mbs = num_total_ticks * num_mbs_per_eval + leftover
    /\ enabled \in SUBSET MetricSet
    /\ gen_pos = 0
    /\ islice_cnt = 0
    /\ trained = <<>>
    /\ opt_steps = 0
    /\ train_mb = 0
    /\ tick = 0
    /\ eval_mb = 0
    /\ visited = <<>>
    /\ performance_mbs = <<>>
    /\ performance = [m \in {} |-> <<>>]
    /\ res = <<>>

envVars == <<param2val, edits, optimizer, num_total_ticks, num_start_ticks, tick_step,
             num_mbs_per_eval, num_mbs, enabled>>

loopVars == <<gen_pos, islice_cnt, trained, opt_steps, train_mb, tick, eval_mb,
              visited, performance_mbs, performance, res>>

\* params = Params.from_param2val(param2val)
MainParams ==
    /\ pc = "params"
    /\ params' = from_param2val(param2val)
    /\ IF params' = NoParams
          THEN pc' = "error" /\ err' = "TypeError"
          ELSE pc' = "setup" /\ err' = err
    /\ UNCHANGED <<analysisVars, envVars, loopVars>>

\* project_path lookup, load_docs, the two preps, the generator, the scorers, the model.
MainSetup ==
    /\ pc = "setup"
    /\ IF param2val["project_path"] = "absent"
          THEN pc' = "error" /\ err' = "KeyError" /\ gen_pos' = gen_pos
          ELSE pc' = "optimizer" /\ err' = err /\ gen_pos' = 0
    /\ UNCHANGED <<analysisVars, envVars, params, islice_cnt, trained, opt_steps, train_mb, tick,
                   eval_mb, visited, performance_mbs, performance, res>>

ValidOptimizerAny(o) == TRUE

ValidOptimizer(o) == o = "adagrad" \/ o = "sgd"

\* the optimizer choice, then the initial performance dict and counters
MainOptimizer ==
    /\ pc = "optimizer"
    /\ IF ValidOptimizer(optimizer)
          THEN /\ pc' = "loop"
               /\ err' = err
               /\ performance' = [m \in {"train_pp", "test_pp"} |-> <<>>]
               /\ train_mb' = 0
               /\ performance_mbs' = <<>>
          ELSE /\ pc' = "error"
               /\ err' = "AttributeError"
               /\ UNCHANGED <<performance, train_mb, performance_mbs>>
    /\ UNCHANGED <<analysisVars, envVars, params, gen_pos, islice_cnt, trained, opt_steps, tick,
                   eval_mb, visited, res>>

TrainsAtEveryTick(t) == TRUE

\* if tick != 0
TrainsAt(t) == t # 0

enumerate_from_one(n) == n + 1

\* enumerate: the index paired with the item that follows n earlier ones
enumerate_index(n) == n

\* for tick, eval_mb in enumerate(train_prep.eval_mbs)
LoopNext ==
    /\ pc = "loop"
    /\ Len(visited) < Len(eval_mbs)
    /\ tick' = enumerate_index(Len(visited))
    /\ eval_mb' = eval_mbs[Len(visited) + 1]
    /\ visited' = Append(visited, tick')
    /\ islice_cnt' = 0
    /\ pc' = IF TrainsAt(tick') THEN "train" ELSE "evaluate"
    /\ UNCHANGED <<analysisVars, envVars, err, params, gen_pos, trained, opt_steps, train_mb,
                   performance_mbs, performance, res>>

\* One call of next() on islice(windows_generator, 0, stop): whether it yields, and
\* the generator's position afterwards.
islice_pull_then_check(cnt, stop, pos, len) ==
    IF pos >= len THEN [yields |-> FALSE, pos |-> pos]
    ELSE IF cnt >= stop THEN [yields |-> FALSE, pos |-> pos + 1]
    ELSE [yields |-> TRUE, pos |-> pos + 1]

islice_next(cnt, stop, pos, len) ==
    IF cnt >= stop THEN [yields |-> FALSE, pos |-> pos]
    ELSE IF pos >= len THEN [yields |-> FALSE, pos |-> pos]
    ELSE [yields |-> TRUE, pos |-> pos + 1]

\* train_on_corpus: one iteration of its loop (one minibatch, one optimizer step)
TrainMinibatch ==
    /\ pc = "train"
    /\ LET r == islice_next(islice_cnt, num_mbs_per_eval, gen_pos, num_mbs) IN
          /\ r.yields
          /\ gen_pos' = r.pos
          /\ trained' = Append(trained, r.pos)
          /\ opt_steps' = opt_steps + 1
          /\ islice_cnt' = islice_cnt + 1
    /\ UNCHANGED <<analysisVars, envVars, pc, err, params, train_mb, tick, eval_mb, visited,
                   performance_mbs, performance, res>>

\* train_on_corpus returns; train_mb += train_prep.num_mbs_per_eval
TrainReturn ==
    /\ pc = "train"
    /\ LET r == islice_next(islice_cnt, num_mbs_per_eval, gen_pos, num_mbs) IN
          /\ ~r.yields
          /\ gen_pos' = r.pos
    /\ train_mb' = train_mb + num_mbs_per_eval
    /\ pc' = "evaluate"
    /\ UNCHANGED <<analysisVars, envVars, err, params, islice_cnt, trained, opt_steps, tick, eval_mb,
                   visited, performance_mbs, performance, res>>

ShouldEvalBoth(t) == t < num_start_ticks /\ t % tick_step = 0

ShouldEvalInclusive(t) == t <= num_start_ticks \/ t % tick_step = 0

\* if tick < configs.Eval.num_start_ticks or tick % configs.Eval.tick_step == 0
ShouldEval(t) == t < num_start_ticks \/ t % tick_step = 0

\* One update_*_performance call: the metrics it records get one value appended
\* (the value is represented by the marker of the tick it was measured at).
update_performance(perf, ms, mb) ==
    [m \in (DOMAIN perf) \cup (ms \cap enabled) |->
        IF m \in ms \cap enabled
           THEN Append(IF m \in DOMAIN perf THEN perf[m] ELSE <<>>, mb)
           ELSE perf[m]]

\* the evaluation block
Evaluate ==
    /\ pc = "evaluate"
    /\ ShouldEval(tick)
    /\ performance_mbs' = Append(performance_mbs, eval_mb)
    /\ performance' =
          update_performance(
            update_performance(
              update_performance(
                update_performance(performance, {"cs"}, eval_mb),
                {"dp"}, eval_mb),
              {"train_pp", "test_pp"}, eval_mb),
            {"ba"}, eval_mb)
    /\ pc' = "progress"
    /\ UNCHANGED <<analysisVars, envVars, err, params, gen_pos, islice_cnt, trained, opt_steps,
                   train_mb, tick, eval_mb, visited, res>>

SkipEvaluate ==
    /\ pc = "evaluate"
    /\ ~ShouldEval(tick)
    /\ pc' = "progress"
    /\ UNCHANGED <<analysisVars, envVars, err, params, loopVars>>

\* print progress to console
Progress ==
    /\ pc = "progress"
    /\ pc' = "loop"
    /\ UNCHANGED <<analysisVars, envVars, err, params, loopVars>>

RECURSIVE CollectSeries(_, _, _)
\* for k, v in performance.items(): skip the empty lists, one Series per other
CollectSeries(perf, idx, i) ==
    IF i > Len(Metrics) THEN <<>>
    ELSE IF Metrics[i] \notin DOMAIN perf \/ perf[Metrics[i]] = <<>>
         THEN CollectSeries(perf, idx, i + 1)
         ELSE <<[name |-> Metrics[i], values |-> perf[Metrics[i]], index |-> idx]>>
              \o CollectSeries(perf, idx, i + 1)

\* pd.Series(v, index=performance_mbs) raises unless the lengths agree
SeriesLengthsOk(perf, idx) ==
    \A m \in DOMAIN perf : perf[m] = <<>> \/ Len(perf[m]) = Len(idx)

\* the loop is over: collect performance in a list of series and return it
Collect ==
    /\ pc = "loop"
    /\ Len(visited) >= Len(eval_mbs)
    /\ IF SeriesLengthsOk(performance, performance_mbs)
          THEN /\ res' = CollectSeries(performance, performance_mbs, 1)
               /\ pc' = "done"
               /\ err' = err
          ELSE /\ res' = res
               /\ pc' = "error"
               /\ err' = "ValueError"
    /\ UNCHANGED <<analysisVars, envVars, params, gen_pos, islice_cnt, trained, opt_steps, train_mb,
                   tick, eval_mb, visited, performance_mbs, performance>>

MainNext ==
    \/ MainParams
    \/ MainSetup
    \/ MainOptimizer
    \/ LoopNext
    \/ TrainMinibatch
    \/ TrainReturn
    \/ Evaluate
    \/ SkipEvaluate
    \/ Progress
    \/ Collect

SpecMain == MainInit /\ [][MainNext]_vars

\* main is one sequential thread: whenever it has a next step, it takes it.
SpecMainFair == SpecMain /\ WF_vars(MainNext)

\* ------------------------------------------------------------------ Params alone
\* Params.from_param2val on mappings that differ from a well-typed one in at most
\* MaxEdits keys (a key dropped or added, a value of another type).
MainIdle ==
    /\ pc = "params"
    /\ err = "none"
    /\ param2val = WellTyped
    /\ edits = 0
    /\ params = NoParams
    /\ optimizer = "sgd"
    /\ num_total_ticks = 1
    /\ num_start_ticks = 0
    /\ tick_step = 1
    /\ num_mbs_per_eval = 1
    /\ num_mbs = 1
    /\ enabled = MetricSet
    /\ gen_pos = 0
    /\ islice_cnt = 0
    /\ trained = <<>>
    /\ opt_steps = 0
    /\ train_mb = 0
    /\ tick = 0
    /\ eval_mb = 0
    /\ visited = <<>>
    /\ performance_mbs = <<>>
    /\ performance = [m \in {} |-> <<>>]
    /\ res = <<>>

ParamsInit == MainIdle /\ AnalysisIdle

\* The caller hands main another mapping: one key's value replaced or removed.
EditParam ==
    /\ pc = "params"
    /\ edits < MaxEdits
    /\ \E k \in AllKeys, v \in TypeTags \cup {"absent"} :
          /\ param2val[k] = WellTyped[k]
          /\ v # param2val[k]
          /\ param2val' = [param2val EXCEPT ![k] = v]
    /\ edits' = edits + 1
    /\ UNCHANGED <<analysisVars, pc, err, params, optimizer, num_total_ticks,
                   num_start_ticks, tick_step, num_mbs_per_eval, num_mbs, enabled, loopVars>>

ParamsNext ==
    \/ EditParam
    \/ MainParams
    \/ MainSetup

SpecParams == ParamsInit /\ [][ParamsNext]_vars

\* ------------------------------------------------------------------ properties of main
\* The ticks whose loop body has run to its end.
CompletedTicks ==
    {t \in 0..(Len(visited) - 1) : t < tick \/ pc \notin {"train", "evaluate"}}

\* The ticks at which the schedule asks for an evaluation.
ScheduledTicks ==
    {t \in 0..num_total_ticks : t < num_start_ticks \/ t % tick_step = 0}

StrictlyIncreasing(s) == \A i \in 1..(Len(s) - 1) : s[i] < s[i + 1]

\* C1: tick 0 consumes no minibatch from the windows generator, and every tick
\* t >= 1 consumes (and trains on) exactly num_mbs_per_eval of them: whenever the
\* training of tick t is over, t * num_mbs_per_eval batches have been drawn and as
\* many optimizer steps taken, and during the training of tick t the count is
\* (t - 1) * num_mbs_per_eval plus the minibatches of this tick so far.
C1_MinibatchesPerTick ==
    /\ pc \in {"params", "setup", "optimizer", "error"} /\ err # "ValueError"
          => gen_pos = 0 /\ opt_steps = 0
    /\ pc = "train"
          => /\ tick >= 1
             /\ islice_cnt <= num_mbs_per_eval
             /\ gen_pos = (tick - 1) * num_mbs_per_eval + islice_cnt
             /\ opt_steps = gen_pos
    /\ pc \in {"loop", "evaluate", "progress", "done"} \/ err = "ValueError"
          => /\ gen_pos = tick * num_mbs_per_eval
             /\ opt_steps = tick * num_mbs_per_eval
             /\ train_mb = tick * num_mbs_per_eval

C1_Witness ==
    /\ pc = "progress"
    /\ tick = 2
    /\ num_mbs_per_eval = 2
    /\ gen_pos = 4
    /\ opt_steps = 4

\* C2: with an optimizer name that is neither "adagrad" nor "sgd", main raises the
\* configuration error at setup: it never gets past the optimizer choice, and no
\* minibatch has been drawn, no optimizer step taken and no evaluation recorded.
C2_InvalidOptimizerRaisesFirst ==
    optimizer \notin {"adagrad", "sgd"}
       => /\ pc \in {"params", "setup", "optimizer", "error"}
          /\ pc = "error" => err = "AttributeError"
          /\ gen_pos = 0
          /\ trained = <<>>
          /\ opt_steps = 0
          /\ performance_mbs = <<>>
          /\ \A m \in DOMAIN performance : performance[m] = <<>>
          /\ res = <<>>

C2_Witness ==
    /\ pc = "error"
    /\ err = "AttributeError"
    /\ optimizer = "adam"
    /\ params # NoParams

\* C3: every series main returns has at most as many entries as there are
\* scheduled evaluation ticks, every series is indexed by the one performance_mbs
\* list (entry for entry), and that list is in increasing order.
C3_ReturnedSeries ==
    /\ StrictlyIncreasing(performance_mbs)
    /\ pc = "done"
          => \A i \in 1..Len(res) :
                /\ Len(res[i].values) <= Cardinality(ScheduledTicks)
                /\ Len(res[i].values) <= num_total_ticks + 1
                /\ res[i].index = performance_mbs
                /\ Len(res[i].values) = Len(res[i].index)

C3_Witness ==
    /\ pc = "done"
    /\ Len(res) >= 2
    /\ Len(performance_mbs) >= 2
    /\ Len(performance_mbs) < num_total_ticks + 1

\* C4: the loop visits the ticks 0, 1, 2, ... in this order, each once, never more
\* than num_total_ticks + 1 of them; it is over only when all of 0..num_total_ticks
\* have been visited; and every run ends (returns or raises).
C4_TicksVisited ==
    /\ [](/\ Len(visited) <= num_total_ticks + 1
          /\ \A i \in 1..Len(visited) : visited[i] = i - 1
          /\ (pc = "done" \/ err = "ValueError")
                => visited = [i \in 1..(num_total_ticks + 1) |-> i - 1])
    /\ <>(pc \in {"done", "error"})

C4_Witness ==
    /\ pc = "done"
    /\ num_total_ticks = 3
    /\ visited = <<0, 1, 2, 3>>

\* C5: the evaluation block has run at exactly those completed ticks t with
\* t < num_start_ticks or t mod tick_step = 0: performance_mbs holds their markers
\* and nothing else, every recorded series has one value per such tick, and the
\* block of a tick runs only when that tick's training is over.
C5_EvaluationSchedule ==
    LET evaluated ==
          {t \in CompletedTicks : t < num_start_ticks \/ t % tick_step = 0}
    IN  /\ Len(performance_mbs) = Cardinality(evaluated)
        /\ {performance_mbs[i] : i \in 1..Len(performance_mbs)}
              = {t * num_mbs_per_eval : t \in evaluated}
        /\ StrictlyIncreasing(performance_mbs)
        /\ \A m \in DOMAIN performance :
              performance[m] = IF m \in enabled THEN performance_mbs ELSE <<>>
        /\ pc = "evaluate"
              => /\ opt_steps = tick * num_mbs_per_eval
                 /\ gen_pos = tick * num_mbs_per_eval
        /\ pc = "train" => eval_mb \notin {performance_mbs[i] : i \in 1..Len(performance_mbs)}

C5_Witness ==
    /\ pc = "progress"
    /\ tick = 3
    /\ ~(tick < num_start_ticks \/ tick % tick_step = 0)
    /\ Len(performance_mbs) = 3
    /\ "ba" \in DOMAIN performance
    /\ Len(performance["ba"]) = 3

\* C9: the minibatches trained on are, at every moment, exactly the batches the
\* generator has yielded so far, in the generator's order: a prefix of its output,
\* none twice, none drawn and dropped.
C9_ExactlyOnceForwardOnly ==
    /\ gen_pos <= num_mbs
    /\ Len(trained) = gen_pos
    /\ \A i \in 1..Len(trained) : trained[i] = i

C9_Witness ==
    /\ pc = "train"
    /\ tick = 2
    /\ num_mbs_per_eval = 2
    /\ trained = <<1, 2, 3>>

\* ------------------------------------------------------------------ properties of Params
\* C6 as stated: construction fails for every mapping in which a declared field is
\* missing or holds a value whose type is not exactly the field's type.
C6_ExactTypesOriginal ==
    pc # "params"
       => ((\E f \in FieldSet : param2val[f] # FieldType(f))
              => params = NoParams /\ pc = "error")

\* C6, amended: from_param2val drops the keys job_name, param_name, save_path and
\* project_path and no other; construction fails exactly when a declared field is
\* missing, holds a value that is no instance of the field's type (a bool counts
\* as an instance of int), or an undeclared key remains; when it fails nothing
\* downstream has run, and when it succeeds the object holds the mapping's values.
C6_InstanceTypes ==
    pc # "params"
       => LET bad_field(f) ==
                \/ param2val[f] = "absent"
                \/ /\ param2val[f] # FieldType(f)
                   /\ ~(param2val[f] = "bool" /\ FieldType(f) = "int")
              undeclared ==
                {k \in AllKeys : param2val[k] # "absent"}
                   \ (FieldSet \cup {"job_name", "param_name", "save_path", "project_path"})
          IN  /\ params = NoParams <=> ((\E f \in FieldSet : bad_field(f)) \/ undeclared # {})
              /\ params = NoParams
                    => pc = "error" /\ err = "TypeError" /\ gen_pos = 0 /\ res = <<>>
              /\ params # NoParams
                    => DOMAIN params = FieldSet /\ \A f \in FieldSet : params[f] = param2val[f]

C6_Witness ==
    /\ pc = "error"
    /\ err = "TypeError"
    /\ param2val["lr"] = "int"
    /\ param2val["job_name"] = "absent"
    /\ params = NoParams

\* ------------------------------------------------------------------ the entropy analysis
NUM_TICKS == 4

\* np.int64: bytes per element of token_ids_array
ItemSize == 8

\* strides=(8, 8): bytes from one row to the next, from one column to the next
RowStride == 8

ColStride == 8

\* What a read outside the token array is shown as.
OutOfBounds == -1

Words == 1..VocabSize

\* prep.store.w2id: a word's id is its position in the vocabulary, from 0
w2id(w) == w - 1

TokenIdSet == {w2id(w) : w \in Words}

RECURSIVE SeqsUpTo(_, _)
\* the sequences over S of length 1..n
SeqsUpTo(S, n) ==
    IF n = 0 THEN {}
    ELSE SeqsUpTo(S, n - 1) \cup [1..n -> S]

num_possible_windows_plus2(n, w) == n - w + 2

\* num_possible_windows = len(token_ids_array) - prep.num_tokens_in_window
num_possible_windows(n, w) == n - w

\* as_strided(arr, shape, strides): entry (i, j) is whatever lies i * strides[0] +
\* j * strides[1] bytes after the array's first element.
as_strided(arr, rows, cols, s0, s1) ==
    [i \in 1..rows |->
        [j \in 1..cols |->
            LET off == (i - 1) * s0 + (j - 1) * s1 IN
            IF off % ItemSize = 0 /\ off \div ItemSize < Len(arr)
               THEN arr[off \div ItemSize + 1]
               ELSE OutOfBounds]]

\* [int(i) for i in np.linspace(0, len(windows), NUM_TICKS + 1)][1:]
linspace_sizes(n) == [j \in 1..NUM_TICKS |-> (n * j) \div NUM_TICKS]

flip_columns(m) ==
    [i \in 1..Len(m) |-> [j \in 1..Len(m[i]) |-> m[i][Len(m[i]) + 1 - j]]]

\* np.flip(windows, 0): the rows in the opposite order
flip(m) == [i \in 1..Len(m) |-> m[Len(m) + 1 - i]]

\* windows[:num_windows]
take(m, k) == SubSeq(m, 1, IF k < Len(m) THEN k ELSE Len(m))

is_probe_row_last_col(row) == row[Len(row)] \in {w2id(w) : w \in probes}

\* np.isin(ws[:, -2], [prep.store.w2id[w] for w in probes]) for one row
is_probe_row(row) == row[Len(row) - 1] \in {w2id(w) : w \in probes}

RECURSIVE mask_rows(_)
\* ws[row_ids]: the rows the boolean mask selects, in order
mask_rows(m) ==
    IF m = <<>> THEN <<>>
    ELSE (IF is_probe_row(Head(m)) THEN <<Head(m)>> ELSE <<>>) \o mask_rows(Tail(m))

\* probe_windows[:, c] for a column counted from the end (1 = last)
column_from_end(m, c) == [i \in 1..Len(m) |-> m[i][Len(m[i]) + 1 - c]]

\* drv.entropy_conditional(x, y), represented by the arrays it is computed over
entropy_conditional(x, y) == [x |-> x, y |-> y]

AnalysisInit ==
    /\ MainIdle
    /\ apc = "windows"
    /\ token_ids \in SeqsUpTo(TokenIdSet, MaxTokens)
    /\ num_tokens_in_window \in 2..MaxWidth
    /\ probes \in SUBSET Words
    /\ windows = <<>>
    /\ num_windows_list = <<>>
    /\ reverse = FALSE
    /\ cwindows = <<>>
    /\ it = 1
    /\ ws = <<>>
    /\ ce = <<>>
    /\ y1 = <<>>
    /\ y2 = <<>>

\* the module-level code that builds windows and num_windows_list
BuildWindows ==
    /\ apc = "windows"
    /\ LET n == num_possible_windows(Len(token_ids), num_tokens_in_window) IN
          IF n < 0
             THEN /\ apc' = "shape_error"
                  /\ UNCHANGED <<windows, num_windows_list>>
             ELSE /\ apc' = "call"
                  /\ windows' = as_strided(token_ids, n, num_tokens_in_window,
                                           RowStride, ColStride)
                  /\ num_windows_list' = linspace_sizes(Len(windows'))
    /\ UNCHANGED <<mainVars, token_ids, num_tokens_in_window, probes, reverse,
                   cwindows, it, ws, ce, y1, y2>>

\* collect_data is entered: y1 = collect_data(windows, reverse=False), then
\* y2 = collect_data(windows, reverse=True)
CollectEnter ==
    /\ apc \in {"call", "call_reverse"}
    /\ reverse' = (apc = "call_reverse")
    /\ cwindows' = IF reverse' THEN flip(windows) ELSE windows
    /\ ce' = <<>>
    /\ it' = 1
    /\ ws' = <<>>
    /\ apc' = "collect"
    /\ UNCHANGED <<mainVars, token_ids, num_tokens_in_window, probes, windows,
                   num_windows_list, y1, y2>>

\* one iteration of collect_data's loop over num_windows_list
CollectIter ==
    /\ apc = "collect"
    /\ it <= Len(num_windows_list)
    /\ ws' = take(cwindows, num_windows_list[it])
    /\ LET probe_windows == mask_rows(ws') IN
          ce' = Append(ce, entropy_conditional(column_from_end(probe_windows, 2),
                                               column_from_end(probe_windows, 1)))
    /\ it' = it + 1
    /\ UNCHANGED <<mainVars, apc, token_ids, num_tokens_in_window, probes, windows,
                   num_windows_list, reverse, cwindows, y1, y2>>

\* The estimator is an external library: over no rows at all it may return a
\* value (CollectIter) or raise, which ends the script.
CollectIterRaises ==
    /\ apc = "collect"
    /\ it <= Len(num_windows_list)
    /\ ws' = take(cwindows, num_windows_list[it])
    /\ mask_rows(ws') = <<>>
    /\ apc' = "entropy_error"
    /\ UNCHANGED <<mainVars, token_ids, num_tokens_in_window, probes, windows,
                   num_windows_list, reverse, cwindows, it, ce, y1, y2>>

\* return ce
CollectReturn ==
    /\ apc = "collect"
    /\ it > Len(num_windows_list)
    /\ IF reverse
          THEN y2' = ce /\ y1' = y1 /\ apc' = "done"
          ELSE y1' = ce /\ y2' = y2 /\ apc' = "call_reverse"
    /\ UNCHANGED <<mainVars, token_ids, num_tokens_in_window, probes, windows,
                   num_windows_list, reverse, cwindows, it, ws, ce>>

AnalysisNext ==
    \/ BuildWindows
    \/ CollectEnter
    \/ CollectIter
    \/ CollectIterRaises
    \/ CollectReturn

SpecAnalysis == AnalysisInit /\ [][AnalysisNext]_vars

\* ------------------------------------------------------------------ properties of the analysis
\* The probe words' ids.
ProbeIds == {w - 1 : w \in probes}

\* The matrix collect_data slices: the windows in corpus order, or last first.
Directed(rev) ==
    [i \in 1..Len(windows) |-> IF rev THEN windows[Len(windows) + 1 - i] ELSE windows[i]]

\* The j-th smallest element of a set of numbers.
Nth(S, j) == CHOOSE e \in S : Cardinality({s \in S : s <= e}) = j

\* What the value for the cumulative size k is to be computed over.
ExpectedArrays(rev, k) ==
    LET D == Directed(rev)
        w == num_tokens_in_window
        rows == {r \in 1..k : D[r][w - 1] \in ProbeIds}
    IN  [x |-> [j \in 1..Cardinality(rows) |-> D[Nth(rows, j)][w - 1]],
         y |-> [j \in 1..Cardinality(rows) |-> D[Nth(rows, j)][w]]]

\* C7: with reverse=True the first k rows of the flipped matrix are the last k rows
\* of the window matrix, last first, for every k from 0 to the number of windows;
\* with reverse=False the slice is the first k rows in their order; and the slice
\* collect_data took last is the one of its direction and cumulative size.
C7_FlipSlice ==
    apc \notin {"windows", "shape_error", "idle"}
       => LET n == Len(windows) IN
          /\ \A k \in 0..n :
                /\ take(flip(windows), k) = [i \in 1..k |-> windows[n + 1 - i]]
                /\ take(windows, k) = [i \in 1..k |-> windows[i]]
          /\ (apc = "collect" /\ it > 1)
                => ws = [i \in 1..num_windows_list[it - 1] |->
                            IF reverse THEN windows[n + 1 - i] ELSE windows[i]]

C7_Witness ==
    /\ apc = "collect"
    /\ reverse
    /\ it = 4
    /\ Len(windows) = 3
    /\ Len(ws) = 2
    /\ windows[1] # windows[3]
    /\ ws = <<windows[3], windows[2]>>

\* C8: collect_data returns one value per cumulative size, in the order of
\* num_windows_list, and the i-th is computed over exactly the rows, among the
\* first num_windows_list[i] of its direction, whose second-to-last column is a
\* probe id, in their order: x their second-to-last column, y their last.
C8_ProbeRows ==
    /\ apc = "collect"
          => /\ Len(ce) = it - 1
             /\ \A i \in 1..Len(ce) : ce[i] = ExpectedArrays(reverse, num_windows_list[i])
    /\ apc \in {"call_reverse", "done"} \/ (apc = "collect" /\ reverse)
          => /\ Len(y1) = Len(num_windows_list)
             /\ \A i \in 1..Len(y1) : y1[i] = ExpectedArrays(FALSE, num_windows_list[i])
    /\ apc = "done"
          => /\ Len(y2) = Len(num_windows_list)
             /\ \A i \in 1..Len(y2) : y2[i] = ExpectedArrays(TRUE, num_windows_list[i])

C8_Witness ==
    /\ apc = "done"
    /\ y1 # y2
    /\ Len(y2) = 4
    /\ Len(y2[4].x) = 2
    /\ Len(windows) = 3
    /\ y2[4].x # y2[4].y

\* C10: for a token stream longer than the window width, the window matrix has
\* len(token_ids) - width rows of width columns, entry (i, j) (from 0) is the
\* token at position i + j, and every position read lies inside the token array.
C10_StridedWindows ==
    (apc \notin {"windows", "shape_error", "idle"} /\ Len(token_ids) > num_tokens_in_window)
       => /\ Len(windows) = Len(token_ids) - num_tokens_in_window
          /\ \A i \in 1..Len(windows) :
                /\ Len(windows[i]) = num_tokens_in_window
                /\ \A j \in 1..num_tokens_in_window :
                      /\ (i - 1) + (j - 1) < Len(token_ids)
                      /\ windows[i][j] = token_ids[(i - 1) + (j - 1) + 1]
                      /\ windows[i][j] \in TokenIdSet

C10_Witness ==
    /\ apc = "call"
    /\ Len(token_ids) = 5
    /\ num_tokens_in_window = 3
    /\ windows = <<<<0, 1, 1>>, <<1, 1, 0>>>>

====
